---- MODULE Spec2Model ----
(***************************************************************************)
(* A model of app.py: the grade-threshold furigana annotator               *)
(* (annotate_by_grade), the .docx walker (annotate_docx_inplace) and the   *)
(* template repackager (make_docm_from_xml_bytes).                          *)
(*                                                                         *)
(* A Python str is a sequence of Unicode code points (naturals), so that   *)
(* the character classes of the regular expressions are the ranges the     *)
(* source writes.  None, as the value of `reading`, is the empty sequence: *)
(* a reading that was found is never empty (the pattern is `+`), and the   *)
(* code only ever tests `reading` for truth.                               *)
(***************************************************************************)
EXTENDS Integers, Sequences, FiniteSets, TLC

VARIABLES
    pc,                \* position of the modelled call
    csv_present,       \* whether kanji_grade.csv exists
    jaconv_available,  \* whether `import jaconv` succeeds
    threshold,         \* the threshold argument
    token,             \* one token handed to the loop body of annotate_by_grade
    piece,             \* what the loop body computed and appended for `token`
    text,              \* the text argument of annotate_by_grade
    out,               \* annotate_by_grade(text, threshold)
    out2,              \* annotate_by_grade(out, threshold)
    doc0,              \* the parsed document as opened
    doc,               \* the parsed document, mutated in place
    template,          \* template.docm on disk
    new_document_xml,  \* the argument of make_docm_from_xml_bytes
    docm_io            \* what make_docm_from_xml_bytes returned or raised

vars == <<pc, csv_present, jaconv_available, threshold, token, piece, text, out,
          out2, doc0, doc, template, new_document_xml, docm_io>>

(***************************************************************************)
(* Bounds of the model.                                                    *)
(***************************************************************************)
MaxSurface == 3      \* longest token surface drawn
MaxThreshold == 10   \* thresholds are drawn from -1 .. MaxThreshold
MaxLen == 3          \* longest input text drawn
MaxRuns == 2         \* most runs in a drawn paragraph
MaxXml == 2          \* most elements in a drawn document.xml

(***************************************************************************)
(* Characters (code points).                                               *)
(***************************************************************************)
CR == <<13>>
LF == <<10>>
CRLF == <<13, 10>>
OpenParen == <<65288>>     \* full-width (
CloseParen == <<65289>>    \* full-width )

\* KANJI_CHAR_RE = [一-鿿], U+4E00 .. U+9FFF
IsKanji(ch) == ch \in 19968..40959

\* [゠-ヿ]
IsKatakana(ch) == ch \in 12448..12543

\* MeCab's token separators: the space and the tab are skipped, never part of a surface
IsBlank(ch) == ch \in {32, 9}

(***************************************************************************)
(* Sequence helpers: the str operations the source uses.                   *)
(***************************************************************************)
\* s[i:] for 0-based i, as SubSeq
Drop(s, n) == SubSeq(s, n + 1, Len(s))

\* s[:n]
Take(s, n) == SubSeq(s, 1, n)

RECURSIVE Join(_)
\* ''.join(list)
Join(ss) == IF ss = <<>> THEN <<>> ELSE Head(ss) \o Join(Tail(ss))

\* all sequences over S of length lo .. hi
SeqsOf(S, lo, hi) == UNION {[1..n -> S] : n \in lo..hi}

(***************************************************************************)
(* load_kanji_grade_mapping                                                *)
(***************************************************************************)
RECURSIVE Strip(_)
\* str.strip(): leading and trailing blanks removed
Strip(s) ==
    IF s = <<>> THEN s
    ELSE IF Head(s) \in {32, 9, 10, 13} THEN Strip(Tail(s))
    ELSE IF s[Len(s)] \in {32, 9, 10, 13} THEN Strip(Take(s, Len(s) - 1))
    ELSE s

IsDigits(s) == s # <<>> /\ \A i \in 1..Len(s) : s[i] \in 48..57

RECURSIVE DigitsValue(_)
DigitsValue(s) ==
    IF s = <<>> THEN 0 ELSE 10 * DigitsValue(Take(s, Len(s) - 1)) + (s[Len(s)] - 48)

\* int(row[1]): <<value>>, or <<>> where the source catches ValueError
ParseInt(s) == IF IsDigits(Strip(s)) THEN <<DigitsValue(Strip(s))>> ELSE <<>>

\* the rows csv.reader yields for the kanji_grade.csv of the model
CsvRows ==
    << << <<29356>>, <<50>> >>,              \* 犬,2   (overwritten below)
       << <<32, 29356>>, <<49>> >>,          \* " 犬",1
       << <<29483>>, <<57>> >>,              \* 猫,9
       << <<39729>>, <<49, 48>> >>,          \* 鬱,10  grade out of 1..9: skipped
       << <<26228>> >>,                      \* 晴     fewer than two columns: skipped
       << <<26228>>, <<120>> >>,             \* 晴,x   not an integer: skipped
       << <<>>, <<51>> >>,                   \* ,3     empty key: skipped
       << <<12398>>, <<49>> >> >>            \* の,1   a key that is no kanji

EmptyMapping == [k \in {} |-> 0]

MappingPut(mapping, kanji, grade) ==
    [k \in DOMAIN mapping \cup {kanji} |-> IF k = kanji THEN grade ELSE mapping[k]]

RECURSIVE LoadRows(_, _)
LoadRows(rows, mapping) ==
    IF rows = <<>> THEN mapping
    ELSE LET row == Head(rows)
         IN  IF Len(row) < 2 THEN LoadRows(Tail(rows), mapping)
             ELSE LET kanji == Strip(row[1])
                      grade == ParseInt(row[2])
                  IN  IF grade = <<>> THEN LoadRows(Tail(rows), mapping)
                      ELSE IF kanji # <<>> /\ 1 <= grade[1] /\ grade[1] <= 9
                           THEN LoadRows(Tail(rows), MappingPut(mapping, kanji, grade[1]))
                           ELSE LoadRows(Tail(rows), mapping)

load_kanji_grade_mapping(present) ==
    IF present THEN LoadRows(CsvRows, EmptyMapping) ELSE EmptyMapping

\* the module-level table, built once at import
KANJI_GRADE == load_kanji_grade_mapping(csv_present)

\* KANJI_GRADE.get(ch): <<grade>>, or <<>> for None
GradeOf(mapping, ch) == IF <<ch>> \in DOMAIN mapping THEN <<mapping[<<ch>>]>> ELSE <<>>

(***************************************************************************)
(* annotate_by_grade: the body of the token loop (lines 51-92).            *)
(* A token is [surface, feature]: the surface string and the ordered       *)
(* feature strings of the tokenizer.                                       *)
(***************************************************************************)
\* re.fullmatch(r'[゠-ヿ]+', feat), behind `feat and`
IsKatakanaField(feat) == feat # <<>> /\ \A i \in 1..Len(feat) : IsKatakana(feat[i])

RECURSIVE ScanReversed(_)
\* for feat in reversed(token.feature): the first katakana-only field, else None
ScanReversed(feature) ==
    IF feature = <<>> THEN <<>>
    ELSE IF IsKatakanaField(feature[Len(feature)]) THEN feature[Len(feature)]
    ELSE ScanReversed(Take(feature, Len(feature) - 1))

\* jaconv.kata2hira on one character: U+30A1..U+30F6 move down by 0x60, the
\* long-vowel mark and the rest of the block stay
Kata2HiraChar(ch) == IF ch \in 12449..12534 THEN ch - 96 ELSE ch

Kata2Hira(s) == [i \in 1..Len(s) |-> Kata2HiraChar(s[i])]

\* lines 54-64: the reading, converted when jaconv can be imported
ReadingOf(feature, jaconv) ==
    LET reading == ScanReversed(feature)
    IN  IF reading # <<>> /\ jaconv THEN Kata2Hira(reading) ELSE reading

\* KANJI_CHAR_RE.search(surface)
ContainsKanji(surface) == \E i \in 1..Len(surface) : IsKanji(surface[i])

RECURSIVE LeadingKanjiLen(_)
\* the length of group 1 of ^([一-鿿]+)(.*)$, 0 when there is no match
LeadingKanjiLen(surface) ==
    IF surface # <<>> /\ IsKanji(Head(surface))
    THEN 1 + LeadingKanjiLen(Tail(surface))
    ELSE 0

\* SplitSurface with the no-match branch swapped: nothing is the kanji part
SplitSurfaceNoMatchAsRest(surface) ==
    LET n == LeadingKanjiLen(surface)
    IN  IF n > 0
        THEN [kanji_part |-> Take(surface, n), rest |-> Drop(surface, n)]
        ELSE [kanji_part |-> <<>>, rest |-> surface]

\* lines 70-74.  A surface is cut from a chunk between line breaks, so it holds
\* no line feed and `(.*)$` takes everything after the leading kanji run
SplitSurface(surface) ==
    LET n == LeadingKanjiLen(surface)
    IN  IF n > 0
        THEN [kanji_part |-> Take(surface, n), rest |-> Drop(surface, n)]
        ELSE [kanji_part |-> surface, rest |-> <<>>]

\* KanjiReading without the length guard: reading[:-len(rest)] whatever the lengths
KanjiReadingUnguarded(kanji_part, rest, reading) ==
    IF rest # <<>> /\ Len(kanji_part) = 1
    THEN IF Len(reading) > Len(rest)
         THEN Take(reading, Len(reading) - Len(rest))
         ELSE <<>>
    ELSE reading

\* lines 76-79
KanjiReading(kanji_part, rest, reading) ==
    IF rest # <<>> /\ Len(kanji_part) = 1
    THEN IF Len(reading) > Len(rest)
         THEN Take(reading, Len(reading) - Len(rest))
         ELSE reading
    ELSE reading

\* line 81
Grades(mapping, kanji_part) == [i \in 1..Len(kanji_part) |-> GradeOf(mapping, kanji_part[i])]

\* Attach with `<=` for `<`
AttachAtOrBelow(grades, th) ==
    IF \E i \in 1..Len(grades) : grades[i] = <<>> THEN TRUE
    ELSE IF \A i \in 1..Len(grades) : grades[i][1] <= th THEN FALSE
    ELSE TRUE

\* lines 82-87
Attach(grades, th) ==
    IF \E i \in 1..Len(grades) : grades[i] = <<>> THEN TRUE
    ELSE IF \A i \in 1..Len(grades) : grades[i][1] < th THEN FALSE
    ELSE TRUE

\* line 92
Gloss(kanji_part, kanji_reading, rest) ==
    kanji_part \o OpenParen \o kanji_reading \o CloseParen \o rest

\* lines 51-92: everything the loop body computes for one token
TokenStep(tok, th, mapping, jaconv) ==
    LET surface == tok.surface
        reading == ReadingOf(tok.feature, jaconv)
    IN  IF reading = <<>> \/ ~ContainsKanji(surface)
        THEN [branch |-> "plain", reading |-> reading, kanji_part |-> <<>>,
              rest |-> <<>>, kanji_reading |-> <<>>, attach |-> FALSE,
              appended |-> surface]
        ELSE LET sp == SplitSurface(surface)
                 kr == KanjiReading(sp.kanji_part, sp.rest, reading)
                 at == Attach(Grades(mapping, sp.kanji_part), th)
             IN  [branch |-> "graded", reading |-> reading,
                  kanji_part |-> sp.kanji_part, rest |-> sp.rest,
                  kanji_reading |-> kr, attach |-> at,
                  appended |-> IF at THEN Gloss(sp.kanji_part, kr, sp.rest)
                               ELSE surface]

(***************************************************************************)
(* The tokenizer, tagger = Tagger() (fugashi over MeCab): a dictionary     *)
(* lookup taking the longest entry at each position.  MeCab skips blanks   *)
(* between tokens, so no surface holds one; a character no entry starts    *)
(* with is a token of its own whose features carry no reading.             *)
(***************************************************************************)
\* 名詞, 記号
Noun == <<21517, 35422>>
Symbol == <<35352, 21495>>

\* the dictionary of the model: 犬 イヌ, 猫 ネコ, 犬猫 ケンビョー
Lexicon ==
    { [surface |-> <<29356>>, feature |-> <<Noun, <<12452, 12492>>, <<12452, 12492>> >>],
      [surface |-> <<29483>>, feature |-> <<Noun, <<12493, 12467>>, <<42>> >>],
      [surface |-> <<29356, 29483>>,
       feature |-> <<Noun, <<12465, 12531, 12499, 12519, 12540>> >>] }

IsPrefix(p, s) == Len(p) <= Len(s) /\ Take(s, Len(p)) = p

RECURSIVE Tagger(_)
Tagger(chunk) ==
    IF chunk = <<>> THEN <<>>
    ELSE IF IsBlank(Head(chunk)) THEN Tagger(Tail(chunk))
    ELSE LET cands == {e \in Lexicon : IsPrefix(e.surface, chunk)}
         IN  IF cands = {}
             THEN <<[surface |-> <<Head(chunk)>>, feature |-> <<Symbol, <<42>> >>]>>
                  \o Tagger(Tail(chunk))
             ELSE LET e == CHOOSE c \in cands :
                               \A d \in cands : Len(d.surface) <= Len(c.surface)
                  IN  <<e>> \o Tagger(Drop(chunk, Len(e.surface)))

(***************************************************************************)
(* annotate_by_grade: the chunk loop (lines 39-96).                        *)
(***************************************************************************)
RECURSIVE ReSplitFrom(_, _)
ReSplitFrom(s, cur) ==
    IF s = <<>> THEN <<cur>>
    ELSE IF Len(s) >= 2 /\ Take(s, 2) = CRLF
         THEN <<cur, CRLF>> \o ReSplitFrom(Drop(s, 2), <<>>)
    ELSE IF <<Head(s)>> \in {CR, LF}
         THEN <<cur, <<Head(s)>> >> \o ReSplitFrom(Tail(s), <<>>)
    ELSE ReSplitFrom(Tail(s), Append(cur, Head(s)))

\* re.split(r'(\r\n|\r|\n)', text): chunks and the captured breaks, alternating
ReSplit(s) == ReSplitFrom(s, <<>>)

\* lines 50-94 for one chunk: the strings appended to `processed`
Processed(chunk, th, mapping, jaconv) ==
    LET tokens == Tagger(chunk)
    IN  [i \in 1..Len(tokens) |-> TokenStep(tokens[i], th, mapping, jaconv).appended]

\* lines 41-94 for one element of the split
OutChunk(chunk, th, mapping, jaconv) ==
    IF chunk \in {CRLF, CR, LF} THEN chunk
    ELSE IF chunk = <<>> THEN chunk
    ELSE Join(Processed(chunk, th, mapping, jaconv))

OutChunks(s, th, mapping, jaconv) ==
    LET chunks == ReSplit(s)
    IN  [i \in 1..Len(chunks) |-> OutChunk(chunks[i], th, mapping, jaconv)]

annotate_by_grade(s, th, mapping, jaconv) == Join(OutChunks(s, th, mapping, jaconv))

(***************************************************************************)
(* Values of the variables a specification does not use.                   *)
(***************************************************************************)
NoToken == [surface |-> <<>>, feature |-> <<>>]
NoPiece == [branch |-> "none", reading |-> <<>>, kanji_part |-> <<>>, rest |-> <<>>,
            kanji_reading |-> <<>>, attach |-> FALSE, appended |-> <<>>]
NoDoc == [paragraphs |-> <<>>, tables |-> <<>>, cells |-> <<>>]
NoTemplate == [kind |-> "missing", parts |-> <<>>]
NoResult == [kind |-> "none"]

Thresholds == (0 - 1)..MaxThreshold

(***************************************************************************)
(* SpecToken: the loop body on one token.                                  *)
(***************************************************************************)
\* 犬 (grade 1), 猫 (grade 9), 鬱 (no grade), れ, の (a table key that is no kanji)
SurfaceChars == {29356, 29483, 39729, 12428, 12398}

Surfaces == SeqsOf(SurfaceChars, 1, MaxSurface)

\* ハ, ハレ, イヌ, ハレー, ハれ
FeatureLists ==
    { <<>>,
      <<Noun>>,
      <<Noun, <<12495>> >>,
      <<Noun, <<12495, 12524>>, <<42>> >>,
      <<Noun, <<12452, 12492>>, <<12495, 12524, 12540>> >>,
      <<Noun, <<12495, 12428>>, <<>> >> }

Tokens == [surface : Surfaces, feature : FeatureLists]

InitToken ==
    /\ pc = "token"
    /\ csv_present \in BOOLEAN
    /\ jaconv_available \in BOOLEAN
    /\ threshold \in Thresholds
    /\ token \in Tokens
    /\ piece = NoPiece
    /\ text = <<>> /\ out = <<>> /\ out2 = <<>>
    /\ doc0 = NoDoc /\ doc = NoDoc
    /\ template = NoTemplate /\ new_document_xml = <<>> /\ docm_io = NoResult

ProcessToken ==
    /\ pc = "token"
    /\ piece' = TokenStep(token, threshold, KANJI_GRADE, jaconv_available)
    /\ pc' = "appended"
    /\ UNCHANGED <<csv_present, jaconv_available, threshold, token, text, out, out2,
                   doc0, doc, template, new_document_xml, docm_io>>

NextToken == ProcessToken

SpecToken == InitToken /\ [][NextToken]_vars

(***************************************************************************)
(* SpecText: annotate_by_grade on a text, and again on its own output.     *)
(***************************************************************************)
\* 犬, 猫, space, CR, LF
TextChars == {29356, 29483, 32, 13, 10}

Texts == SeqsOf(TextChars, 0, MaxLen)

InitText ==
    /\ pc = "text"
    /\ csv_present \in BOOLEAN
    /\ jaconv_available \in BOOLEAN
    /\ threshold \in Thresholds
    /\ text \in Texts
    /\ out = <<>> /\ out2 = <<>>
    /\ token = NoToken /\ piece = NoPiece
    /\ doc0 = NoDoc /\ doc = NoDoc
    /\ template = NoTemplate /\ new_document_xml = <<>> /\ docm_io = NoResult

Annotate ==
    /\ pc = "text"
    /\ out' = annotate_by_grade(text, threshold, KANJI_GRADE, jaconv_available)
    /\ pc' = "annotated"
    /\ UNCHANGED <<csv_present, jaconv_available, threshold, token, piece, text, out2,
                   doc0, doc, template, new_document_xml, docm_io>>

Reannotate ==
    /\ pc = "annotated"
    /\ out2' = annotate_by_grade(out, threshold, KANJI_GRADE, jaconv_available)
    /\ pc' = "reannotated"
    /\ UNCHANGED <<csv_present, jaconv_available, threshold, token, piece, text, out,
                   doc0, doc, template, new_document_xml, docm_io>>

NextText == Annotate \/ Reannotate

SpecText == InitText /\ [][NextText]_vars

(***************************************************************************)
(* annotate_docx_inplace.  A parsed document is its body paragraphs (each  *)
(* the texts of its runs), its tables, and the cells the tables are laid   *)
(* out of.  A table is its rows and a row is row.cells: one entry per grid *)
(* column, each naming a cell of `cells`.  python-docx returns a merged    *)
(* cell once for every grid position it covers, so a row may name the same *)
(* cell more than once.  A cell is [paragraphs, tables].                   *)
(***************************************************************************)
\* annotate_by_grade with the module's table and the installed modules
AnnotateRun(t, th) == annotate_by_grade(t, th, KANJI_GRADE, jaconv_available)

\* for para in ...: for run in para.runs: if run.text: run.text = annotate_by_grade(...)
WalkParagraphs(paragraphs, th) ==
    [i \in 1..Len(paragraphs) |->
        [j \in 1..Len(paragraphs[i]) |->
            IF paragraphs[i][j] # <<>>
            THEN AnnotateRun(paragraphs[i][j], th)
            ELSE paragraphs[i][j]]]

RECURSIVE WalkCells(_, _, _), WalkRows(_, _, _), walk_tables(_, _, _)
\* for cell in row.cells
WalkCells(ids, cells, th) ==
    IF ids = <<>> THEN cells
    ELSE LET c == Head(ids)
             c1 == [cells EXCEPT ![c].paragraphs = WalkParagraphs(@, th)]
             c2 == IF c1[c].tables # <<>> THEN walk_tables(c1[c].tables, c1, th) ELSE c1
         IN  WalkCells(Tail(ids), c2, th)

\* for row in tbl.rows
WalkRows(rows, cells, th) ==
    IF rows = <<>> THEN cells
    ELSE WalkRows(Tail(rows), WalkCells(Head(rows), cells, th), th)

\* for tbl in tables
walk_tables(tables, cells, th) ==
    IF tables = <<>> THEN cells
    ELSE walk_tables(Tail(tables), WalkRows(Head(tables), cells, th), th)

annotate_docx_inplace(d, th) ==
    [paragraphs |-> WalkParagraphs(d.paragraphs, th),
     tables |-> d.tables,
     cells |-> walk_tables(d.tables, d.cells, th)]

(***************************************************************************)
(* SpecDocx: the walker on a parsed document.                              *)
(***************************************************************************)
\* "", 犬, 猫 and a space
RunTexts == { <<>>, <<29356>>, <<29483, 32>> }

NoTables == <<>>
CellOf(run, tables) == [paragraphs |-> << <<run>> >>, tables |-> tables]

\* the table layouts drawn: none; one row of two cells; one row whose two grid
\* columns are one horizontally merged cell; two rows whose column is one
\* vertically merged cell; a cell holding a nested table
Layouts(a, b) ==
    { [tables |-> <<>>, cells |-> <<>>],
      [tables |-> << << <<1, 2>> >> >>,
       cells |-> <<CellOf(a, NoTables), CellOf(b, NoTables)>>],
      [tables |-> << << <<1, 1>> >> >>, cells |-> <<CellOf(a, NoTables)>>],
      [tables |-> << << <<1>>, <<1>> >> >>, cells |-> <<CellOf(b, NoTables)>>],
      [tables |-> << << <<1>> >> >>,
       cells |-> <<CellOf(a, << << <<2>> >> >>), CellOf(b, NoTables)>>] }

Documents ==
    { [paragraphs |-> body, tables |-> l.tables, cells |-> l.cells] :
        body \in { <<>> } \cup { <<runs>> : runs \in SeqsOf(RunTexts, 0, MaxRuns) },
        l \in UNION { Layouts(a, b) : a \in RunTexts, b \in RunTexts } }

InitDocx ==
    /\ pc = "docx"
    /\ csv_present \in BOOLEAN
    /\ jaconv_available \in BOOLEAN
    /\ threshold \in Thresholds
    /\ doc0 \in Documents
    /\ doc = doc0
    /\ token = NoToken /\ piece = NoPiece
    /\ text = <<>> /\ out = <<>> /\ out2 = <<>>
    /\ template = NoTemplate /\ new_document_xml = <<>> /\ docm_io = NoResult

WalkDocument ==
    /\ pc = "docx"
    /\ doc' = annotate_docx_inplace(doc, threshold)
    /\ pc' = "walked"
    /\ UNCHANGED <<csv_present, jaconv_available, threshold, token, piece, text, out,
                   out2, doc0, template, new_document_xml, docm_io>>

NextDocx == WalkDocument

SpecDocx == InitDocx /\ [][NextDocx]_vars

(***************************************************************************)
(* make_docm_from_xml_bytes.  template.docm is missing, is no zip file, or *)
(* is a zip whose parts map names to bytes.  The bytes of a document.xml   *)
(* are kept as the elements they spell: a paragraph, or a ruby element     *)
(* with the values of its two size fields (<<>> where the field is         *)
(* absent).  Other parts are opaque byte strings.                          *)
(***************************************************************************)
DocPart == "word/document.xml"
VbaPart == "word/vbaProject.bin"
TypesPart == "[Content_Types].xml"

NoParts == [n \in {} |-> <<>>]

PartsOf(names, content) ==
    [n \in names |-> IF n = DocPart THEN content
                     ELSE IF n = VbaPart THEN <<207, 17>> ELSE <<60, 63>>]

\* the template's own document.xml: one paragraph
TemplateXml == << [kind |-> "p", sz |-> <<>>, szCs |-> <<>>] >>

Templates ==
    { [kind |-> "missing", parts |-> NoParts],
      [kind |-> "notzip", parts |-> NoParts],
      [kind |-> "zip", parts |-> PartsOf({DocPart, VbaPart, TypesPart}, TemplateXml)],
      [kind |-> "zip", parts |-> PartsOf({DocPart}, TemplateXml)],
      [kind |-> "zip", parts |-> PartsOf({VbaPart, TypesPart}, TemplateXml)] }

XmlElements ==
    { [kind |-> "p", sz |-> <<>>, szCs |-> <<>>],
      [kind |-> "ruby", sz |-> <<>>, szCs |-> <<>>],
      [kind |-> "ruby", sz |-> <<18>>, szCs |-> <<18>>],
      [kind |-> "ruby", sz |-> <<10>>, szCs |-> <<>>],
      [kind |-> "ruby", sz |-> <<18>>, szCs |-> <<10>>] }

\* lines 123-131: what the call raises or returns
make_docm_from_xml_bytes(tpl, xml) ==
    IF tpl.kind = "missing" THEN [kind |-> "raised", error |-> "FileNotFoundError"]
    ELSE IF tpl.kind = "notzip" THEN [kind |-> "raised", error |-> "BadZipFile"]
    ELSE [kind |-> "returned",
          parts |-> [n \in DOMAIN tpl.parts \cup {DocPart} |->
                        IF n = DocPart THEN xml ELSE tpl.parts[n]]]

(***************************************************************************)
(* SpecDocm: the repackager on a document.xml.                             *)
(***************************************************************************)
InitDocm ==
    /\ pc = "docm"
    /\ template \in Templates
    /\ new_document_xml \in SeqsOf(XmlElements, 0, MaxXml)
    /\ docm_io = NoResult
    /\ csv_present = TRUE /\ jaconv_available = TRUE /\ threshold = 1
    /\ token = NoToken /\ piece = NoPiece
    /\ text = <<>> /\ out = <<>> /\ out2 = <<>>
    /\ doc0 = NoDoc /\ doc = NoDoc

MakeDocm ==
    /\ pc = "docm"
    /\ docm_io' = make_docm_from_xml_bytes(template, new_document_xml)
    /\ pc' = "built"
    /\ UNCHANGED <<csv_present, jaconv_available, threshold, token, piece, text, out,
                   out2, doc0, doc, template, new_document_xml>>

NextDocm == MakeDocm

SpecDocm == InitDocm /\ [][NextDocm]_vars

(***************************************************************************)
(* Claims about the loop body, under SpecToken.                            *)
(***************************************************************************)
HasReading(tok) == \E i \in 1..Len(tok.feature) : IsKatakanaField(tok.feature[i])

Glossable(tok) == HasReading(tok) /\ ContainsKanji(tok.surface)

NoGrade(ch) == <<ch>> \notin DOMAIN KANJI_GRADE

AllBelow(s, th) == \A i \in 1..Len(s) : ~NoGrade(s[i]) /\ KANJI_GRADE[<<s[i]>>] < th

UniformGrade(s, g) == \A i \in 1..Len(s) : ~NoGrade(s[i]) /\ KANJI_GRADE[<<s[i]>>] = g

\* C2: for a token with a reading and a kanji in its surface, the gloss is
\* attached if some character of kanji_part has no grade, is not attached if
\* every character's grade is strictly below the threshold, and is attached
\* otherwise; a span of uniform grade g is glossed at threshold g and not at
\* g + 1, and the threshold is compared as given, outside 1..9 too.
C2_GlossDecision ==
    (pc = "appended" /\ Glossable(token)) =>
        LET kp == piece.kanji_part
            someUnknown == \E i \in 1..Len(kp) : NoGrade(kp[i])
            glossed == piece.appended # token.surface
        IN  /\ kp # <<>>
            /\ glossed <=> piece.attach
            /\ someUnknown => glossed
            /\ (~someUnknown /\ AllBelow(kp, threshold)) => ~glossed
            /\ (~someUnknown /\ ~AllBelow(kp, threshold)) => glossed
            /\ \A g \in 1..9 :
                   UniformGrade(kp, g) =>
                       /\ threshold = g => glossed
                       /\ threshold = g + 1 => ~glossed

\* C2 witness: a grade-9 span at threshold 10 is left bare
C2_Witness ==
    /\ pc = "appended" /\ Glossable(token)
    /\ UniformGrade(piece.kanji_part, 9)
    /\ threshold = 10
    /\ piece.appended = token.surface

\* C3: a token with a reading whose surface holds, at any position, a kanji
\* that has no entry in the grade table is emitted with a gloss, for every
\* threshold.
C3_UnknownKanjiGlossed ==
    (/\ pc = "appended" /\ HasReading(token)
     /\ \E i \in 1..Len(token.surface) :
            IsKanji(token.surface[i]) /\ NoGrade(token.surface[i]))
    => (piece.attach /\ piece.appended # token.surface)

\* C4 as stated: a token whose surface does not start with a kanji is emitted
\* unchanged.
C4_NonKanjiStartNeverGlossed ==
    (pc = "appended" /\ ~IsKanji(Head(token.surface)))
    => piece.appended = token.surface

\* C4 amended: a token whose surface does not start with a kanji is emitted
\* unchanged when it has no reading or no kanji; otherwise kanji_part is the
\* whole surface, rest is empty, and it is emitted as surface（reading）unless
\* every character of the surface has a table grade strictly below the
\* threshold.
C4_NonKanjiStart ==
    (pc = "appended" /\ ~IsKanji(Head(token.surface))) =>
        IF ~Glossable(token)
        THEN piece.appended = token.surface
        ELSE /\ piece.kanji_part = token.surface
             /\ piece.rest = <<>>
             /\ piece.appended =
                    IF AllBelow(token.surface, threshold)
                    THEN token.surface
                    ELSE token.surface \o OpenParen \o piece.reading \o CloseParen

\* C4 witness: a token starting with kana and holding a kanji is glossed whole
C4_Witness ==
    /\ pc = "appended" /\ Glossable(token)
    /\ ~IsKanji(Head(token.surface))
    /\ piece.appended = token.surface \o OpenParen \o piece.reading \o CloseParen

\* C10: a glossed token is emitted as kanji_part（kanji_reading）rest, where
\* kanji_reading is the reading less its last len(rest) characters when
\* kanji_part is one character, rest is not empty and the reading is longer
\* than rest, and the whole reading otherwise; kanji_reading is never empty.
C10_GlossFormat ==
    (pc = "appended" /\ piece.attach) =>
        LET kp == piece.kanji_part
            rest == piece.rest
            reading == piece.reading
            strip == Len(kp) = 1 /\ rest # <<>> /\ Len(reading) > Len(rest)
            expected == IF strip
                        THEN SubSeq(reading, 1, Len(reading) - Len(rest))
                        ELSE reading
        IN  /\ kp \o rest = token.surface
            /\ piece.kanji_reading = expected
            /\ piece.kanji_reading # <<>>
            /\ piece.appended = kp \o OpenParen \o expected \o CloseParen \o rest

\* C10 witness: a single kanji with okurigana whose reading is cut short
C10_Witness ==
    /\ pc = "appended" /\ piece.attach
    /\ Len(piece.kanji_part) = 1 /\ piece.rest # <<>>
    /\ Len(piece.reading) > Len(piece.rest)
    /\ Len(piece.kanji_reading) = Len(piece.reading) - Len(piece.rest)

(***************************************************************************)
(* Claims about annotate_by_grade on a text, under SpecText.               *)
(***************************************************************************)
RECURSIVE BreaksOf(_)
\* the line breaks of a string, in order, as the pattern \r\n|\r|\n reads them
BreaksOf(s) ==
    IF s = <<>> THEN <<>>
    ELSE IF Len(s) >= 2 /\ s[1] = 13 /\ s[2] = 10
         THEN <<CRLF>> \o BreaksOf(SubSeq(s, 3, Len(s)))
    ELSE IF s[1] = 13 \/ s[1] = 10
         THEN << <<s[1]>> >> \o BreaksOf(Tail(s))
    ELSE BreaksOf(Tail(s))

\* C1: the ordered sequence of line breaks of the output of annotate_by_grade
\* is that of its input.
C1_LineBreaksPreserved ==
    pc = "annotated" => BreaksOf(out) = BreaksOf(text)

\* C8: annotating the output of annotate_by_grade again with the same
\* threshold changes nothing: annotate(annotate(t)) = annotate(t).
C8_NoDoubleWrap ==
    pc = "reannotated" => out2 = out

(***************************************************************************)
(* Claims about annotate_docx_inplace, under SpecDocx.                     *)
(***************************************************************************)
OnceAnnotated(paragraphs, th) ==
    [i \in 1..Len(paragraphs) |->
        [j \in 1..Len(paragraphs[i]) |->
            IF paragraphs[i][j] = <<>> THEN <<>>
            ELSE annotate_by_grade(paragraphs[i][j], th, KANJI_GRADE, jaconv_available)]]

\* C9: after annotate_docx_inplace every non-empty run of every body paragraph
\* and of every paragraph of every cell holds annotate_by_grade of its original
\* text, applied once; empty runs, and the paragraphs, runs, tables, rows and
\* cells themselves, are as they were.
C9_EveryRunAnnotatedOnce ==
    pc = "walked" =>
        /\ doc.tables = doc0.tables
        /\ doc.paragraphs = OnceAnnotated(doc0.paragraphs, threshold)
        /\ Len(doc.cells) = Len(doc0.cells)
        /\ \A c \in 1..Len(doc0.cells) :
               /\ doc.cells[c].tables = doc0.cells[c].tables
               /\ doc.cells[c].paragraphs = OnceAnnotated(doc0.cells[c].paragraphs, threshold)

(***************************************************************************)
(* Claims about make_docm_from_xml_bytes, under SpecDocm.                  *)
(***************************************************************************)
\* C5: every ruby element of the word/document.xml of the container built has
\* both size fields set to 18.
C5_RubySize18 ==
    (pc = "built" /\ docm_io.kind = "returned") =>
        LET xml == docm_io.parts[DocPart]
        IN  \A i \in 1..Len(xml) :
                xml[i].kind = "ruby" => (xml[i].sz = <<18>> /\ xml[i].szCs = <<18>>)

\* C6: the container returned has exactly the template's part names, its
\* word/document.xml is the new one, and every other part is the template's.
C6_ContainerPreserved ==
    (pc = "built" /\ docm_io.kind = "returned") =>
        /\ DOMAIN docm_io.parts = DOMAIN template.parts
        /\ docm_io.parts[DocPart] = new_document_xml
        /\ \A n \in DOMAIN template.parts \ {DocPart} :
               docm_io.parts[n] = template.parts[n]

\* C7: the call raises, and returns no container, when the template is
\* missing or has no word/document.xml to replace.
C7_FailsWithoutContentPart ==
    (/\ pc = "built"
     /\ \/ template.kind = "missing"
        \/ template.kind = "zip" /\ DocPart \notin DOMAIN template.parts)
    => docm_io.kind = "raised"

====
